---- MODULE Spec2Model ----
(***************************************************************************)
(* Model of the Ollama Amazon parser: parseAmazonProduct (src/parser.js),  *)
(* fetchAmazonPage / extractAsin (src/amazon-fetcher.js) and               *)
(* validateProductData (src/schema.js).                                    *)
(*                                                                         *)
(* JavaScript values are tagged records.  A JavaScript string is a         *)
(* sequence of tokens (a token is a character or a word); the empty        *)
(* string is << >>.  An object is a record of its keys; a key that is      *)
(* missing reads as undefined, exactly as a property access does.          *)
(***************************************************************************)
EXTENDS Integers, Sequences, FiniteSets, TLC

VARIABLES
  pc,                \* position of the parseAmazonProduct invocation
  productAsin,       \* parseAmazonProduct: let productAsin
  productUrl,        \* parseAmazonProduct: let productUrl
  productHtml,       \* parseAmazonProduct: let productHtml
  fetchCalls,        \* calls of fetchAmazonPage issued by this invocation
  httpGets,          \* calls of axios.get issued by this invocation
  generateCalls,     \* calls of ollamaClient.generate issued by this invocation
  completion,        \* what ollamaClient.generate resolved with
  responseText,      \* parseAmazonProduct: let responseText
  productData,       \* parseAmazonProduct: let productData
  validationErrors,  \* parseAmazonProduct: const validationErrors
  result,            \* how the invocation settled: returned data or threw error
  thrownAt,          \* the statement that threw, "none" while nothing has
  vPhase,            \* validateProductData harness: "idle", "input" or "validated"
  vData,             \* the record handed to validateProductData
  vErrors,           \* the errors array it returned
  rPhase,            \* normalization harness: "idle", "input", "once" or "twice"
  rIn,               \* the parsed object and the fallback ASIN and URL
  rOnce,             \* the record normalization returned for rIn
  rTwice,            \* the record normalization returned for rOnce
  reqs,              \* server.js: the POST /parse requests, each with the state
                     \* of its handler and of its parseAmazonProduct invocation
  ePhase,            \* extractProductText harness: "idle", "input" or "extracted"
  eIn,               \* the poExpander and prodDetails tables of the page
  eOut               \* extracted.productDetails

vvars == <<vPhase, vData, vErrors, rPhase, rIn, rOnce, rTwice>>
pvars == <<pc, productAsin, productUrl, productHtml, fetchCalls, httpGets,
           generateCalls, completion, responseText, productData,
           validationErrors, result, thrownAt>>
svars == <<reqs>>
evars == <<ePhase, eIn, eOut>>
vars == <<pvars, vvars, svars, evars>>

(***************************************************************************)
(* JavaScript values                                                       *)
(***************************************************************************)
Undef == [t |-> "undefined"]
Null == [t |-> "null"]
Num(n) == [t |-> "number", n |-> n]
Str(s) == [t |-> "string", s |-> s]
Bool(b) == [t |-> "boolean", b |-> b]
Arr(a) == [t |-> "array", a |-> a]
Obj(o) == [t |-> "object", o |-> o]

\* typeof v === 'number', Array.isArray(v), ...
IsNumber(v) == v.t = "number"
IsString(v) == v.t = "string"
IsBoolean(v) == v.t = "boolean"
IsArray(v) == v.t = "array"

\* JavaScript truthiness: undefined, null, 0, "" and false are falsy.
Truthy(v) ==
  CASE v.t = "undefined" -> FALSE
    [] v.t = "null" -> FALSE
    [] v.t = "number" -> v.n # 0
    [] v.t = "string" -> Len(v.s) > 0
    [] v.t = "boolean" -> v.b
    [] OTHER -> TRUE

\* a || b
Or(a, b) == IF Truthy(a) THEN a ELSE b

\* x !== undefined ? x : null
DefinedOrNull(v) == IF v.t # "undefined" THEN v ELSE Null

(***************************************************************************)
(* Strings                                                                 *)
(***************************************************************************)
\* s.includes(kw) for a keyword that is a token of its own
Includes(s, kw) == \E i \in 1..Len(s) : s[i] = kw

Digits == <<"0", "1", "2", "3", "4", "5", "6", "7", "8", "9">>

RECURSIVE NatToStr(_)
NatToStr(n) ==
  IF n < 10 THEN <<Digits[n + 1]>>
  ELSE NatToStr(n \div 10) \o <<Digits[(n % 10) + 1]>>

RECURSIVE ToStr(_)
RECURSIVE JoinStr(_)
\* Array.prototype.join(','), as String(array) uses it
JoinStr(a) ==
  IF Len(a) = 0 THEN << >>
  ELSE IF Len(a) = 1 THEN (IF a[1].t \in {"undefined", "null"} THEN << >> ELSE ToStr(a[1]))
  ELSE (IF a[1].t \in {"undefined", "null"} THEN << >> ELSE ToStr(a[1]))
       \o <<",">> \o JoinStr(Tail(a))

\* String(v), the coercion RegExp.prototype.test applies to its argument
ToStr(v) ==
  CASE v.t = "string" -> v.s
    [] v.t = "number" -> IF v.n < 0 THEN <<"-">> \o NatToStr(0 - v.n) ELSE NatToStr(v.n)
    [] v.t = "boolean" -> IF v.b THEN <<"t", "r", "u", "e">> ELSE <<"f", "a", "l", "s", "e">>
    [] v.t = "array" -> JoinStr(v.a)
    [] v.t = "undefined" -> <<"undefined">>
    [] v.t = "null" -> <<"null">>
    [] OTHER -> <<"[object Object]">>

\* the character class [A-Z0-9]
UpperAlnum ==
  {"A", "B", "C", "D", "E", "F", "G", "H", "I", "J", "K", "L", "M",
   "N", "O", "P", "Q", "R", "S", "T", "U", "V", "W", "X", "Y", "Z",
   "0", "1", "2", "3", "4", "5", "6", "7", "8", "9"}

\* the quantifier {10} of the ASIN patterns
AsinLen == 10

\* /^[A-Z0-9]{10}$/.test(v)
AsinRegexTest(v) ==
  LET s == ToStr(v)
  IN /\ Len(s) = AsinLen
     /\ \A i \in 1..Len(s) : s[i] \in UpperAlnum

(***************************************************************************)
(* validateProductData (src/schema.js)                                     *)
(***************************************************************************)
MaxPrice == 100000
MaxRollDim == 100

ProductTypes ==
  {<<"wrapping_paper">>, <<"ribbon">>, <<"box">>, <<"tag">>, <<"bow">>}

AsinError == "ASIN must be 10 alphanumeric characters"
TypeError == "Type must be one of: wrapping_paper, ribbon, box, tag, bow"
PriceError == "Price must be a number between 0 and 100000"
QuantityError == "Quantity must be a number between 0 and 100000"
RollWidthError == "Roll width must be a number between 0 and 100"
RollLengthError == "Roll length must be a number between 0 and 100"

\* v !== null && (typeof v !== 'number' || v < 0 || v > max)
OutOfRange_nolower(v, max) ==
  /\ v.t # "null"
  /\ (~IsNumber(v) \/ v.n > max)

OutOfRange(v, max) ==
  /\ v.t # "null"
  /\ (~IsNumber(v) \/ v.n < 0 \/ v.n > max)

\* data.asin && !/^[A-Z0-9]{10}$/.test(data.asin)
AsinViolation(data) == Truthy(data.asin) /\ ~AsinRegexTest(data.asin)

\* data.type && ![...].includes(data.type)
TypeViolation(data) ==
  /\ Truthy(data.type)
  /\ ~(IsString(data.type) /\ data.type.s \in ProductTypes)

validateProductData(data) ==
     (IF AsinViolation(data) THEN <<AsinError>> ELSE << >>)
  \o (IF TypeViolation(data) THEN <<TypeError>> ELSE << >>)
  \o (IF OutOfRange(data.price, MaxPrice) THEN <<PriceError>> ELSE << >>)
  \o (IF OutOfRange(data.quantity, MaxPrice) THEN <<QuantityError>> ELSE << >>)
  \o (IF OutOfRange(data.rollWidth, MaxRollDim) THEN <<RollWidthError>> ELSE << >>)
  \o (IF OutOfRange(data.rollLength, MaxRollDim) THEN <<RollLengthError>> ELSE << >>)

(***************************************************************************)
(* Sample values                                                           *)
(***************************************************************************)
\* the ASIN of the documentation's example, B08XYZ1234
SampleAsin == <<"B", "0", "8", "X", "Y", "Z", "1", "2", "3", "4">>
LowerAsin == <<"b", "0", "8", "x", "y", "z", "1", "2", "3", "4">>
ShortAsin == <<"B", "0", "8", "X", "Y", "Z", "1", "2", "3">>
LongAsin == SampleAsin \o <<"5">>
DashAsin == <<"B", "0", "8", "-", "Y", "Z", "1", "2", "3", "4">>

\* an object of the completion with every key of the schema explicit null
NullProduct ==
  [asin |-> Null, type |-> Null, title |-> Null, price |-> Null, brand |-> Null,
   description |-> Null, size |-> Null, quantity |-> Null, dimensions |-> Null,
   rollLength |-> Null, rollWidth |-> Null, printNames |-> Null, rolls |-> Null,
   thumbnail |-> Null, images |-> Arr(<< >>), url |-> Null]

(***************************************************************************)
(* Errors and the way an invocation settles                                *)
(***************************************************************************)
NoCode == "none"
HeadersTimeoutCode == "UND_ERR_HEADERS_TIMEOUT"

\* new Error(message)
Error(message) == [code |-> NoCode, message |-> message, causeCode |-> NoCode]

Pending == [status |-> "pending"]
Returned(data) == [status |-> "returned", data |-> data]
Threw(error) == [status |-> "threw", error |-> error]

\* The keywords the catch block searches for are tokens of their own; no
\* other token of a message contains one of them.
NoJsonMessage == <<"No JSON object found in ", "Ollama", " response">>
MalformedPrefix == <<"Failed to parse JSON response: ">>
BlockedMessage ==
  <<"Amazon blocked the request. This often happens with automated requests. Try again later or use a different method to access the product page.">>
TimeoutPrefix ==
  <<"Ollama", " request timed out: The ", "model",
    " took too long to respond. Try again or use a faster ", "model",
    ". Original error: ">>
ApiPrefix == <<"Ollama", " API error: ">>
HtmlRequiredMessage ==
  <<"HTML content is required. Provide url, asin, or html in request.">>
FetchFailedPrefix == <<"Failed to fetch Amazon page: ">>
InvalidAsinMessage == <<"Invalid ASIN format. ASIN must be 10 alphanumeric characters.">>
UrlOrAsinRequiredMessage == <<"Valid URL or ASIN is required">>

(***************************************************************************)
(* URLs, ASINs and HTML                                                    *)
(***************************************************************************)
AmazonOrigin == "https://www.amazon.com/"
DpPrefix == <<AmazonOrigin, "dp/">>

\* the template literal https://www.amazon.com/dp/${asin}
DpUrl(asin) == Str(DpPrefix \o ToStr(asin))

\* new URL(s) succeeds: the string starts with a scheme
IsValidUrl(s) == Len(s) > 0 /\ s[1] \in {AmazonOrigin, "https://example.com/"}

\* the alternatives dp/, product/ and gp/product/ of the ASIN patterns
AsinPathTokens == {"dp/", "product/", "gp/product/"}

AsinMatchAt(s, i) ==
  /\ s[i] \in AsinPathTokens
  /\ i + AsinLen <= Len(s)
  /\ \A j \in 1..AsinLen : s[i + j] \in UpperAlnum

\* extractAsin(url): the first pattern that matches, at its leftmost match
extractAsin(url) ==
  IF ~Truthy(url) THEN Null
  ELSE LET s == url.s
           hits == {i \in 1..Len(s) : AsinMatchAt(s, i)}
       IN IF hits = {} THEN Null
          ELSE LET i == CHOOSE k \in hits : \A m \in hits : k <= m
               IN Str(SubSeq(s, i + 1, i + AsinLen))

\* String.prototype.toLowerCase, token by token
LowerToken(tok) ==
  CASE tok = "Continue Shopping" -> "continue shopping"
    [] tok = "CLICK THE BUTTON BELOW" -> "click the button below"
    [] tok = "Captcha" -> "captcha"
    [] OTHER -> tok

toLowerCase(s) == [i \in 1..Len(s) |-> LowerToken(s[i])]

\* htmlLower.includes('continue shopping') || htmlLower.includes('click the button below')
HasBlockPhrase_cased(html) ==
  \/ Includes(html, "continue shopping")
  \/ Includes(html, "click the button below")

HasBlockPhrase(html) ==
  LET htmlLower == toLowerCase(html)
  IN \/ Includes(htmlLower, "continue shopping")
     \/ Includes(htmlLower, "click the button below")

(***************************************************************************)
(* The completion text                                                     *)
(***************************************************************************)
\* Tokens of a completion text: "{", "}", "<fence>", "json", white space, prose,
\* "members": the text of a well-formed member list, whose keys and values
\* are the record completion.members, and "envelope": the members of the
\* serialized response envelope, none of which is a key of the schema.
IsSpace(tok) == tok \in {" ", "\n"}

RECURSIVE TrimLeft(_)
TrimLeft(s) ==
  IF Len(s) > 0 /\ IsSpace(s[1]) THEN TrimLeft(Tail(s)) ELSE s

RECURSIVE TrimRight(_)
TrimRight(s) ==
  IF Len(s) > 0 /\ IsSpace(s[Len(s)]) THEN TrimRight(SubSeq(s, 1, Len(s) - 1)) ELSE s

\* String.prototype.trim
Trim(s) == TrimRight(TrimLeft(s))

\* line 245: the three replace calls that remove a leading fence, with or
\* without the tag json, and a trailing fence
StripFences(s) ==
  LET s1 == IF Len(s) >= 2 /\ s[1] = "<fence>" /\ s[2] \in {"json", "JSON"}
            THEN TrimLeft(SubSeq(s, 3, Len(s))) ELSE s
      s2 == IF Len(s1) >= 1 /\ s1[1] = "<fence>" THEN TrimLeft(Tail(s1)) ELSE s1
      s3 == IF Len(s2) >= 1 /\ s2[Len(s2)] = "<fence>"
            THEN TrimRight(SubSeq(s2, 1, Len(s2) - 1)) ELSE s2
  IN s3

NoMatch == [found |-> FALSE]

Positions(s, tok) == {i \in 1..Len(s) : s[i] = tok}
First(S) == CHOOSE k \in S : \A m \in S : k <= m
Last(S) == CHOOSE k \in S : \A m \in S : k >= m

\* jsonText.match(/\{[\s\S]*\}/) with the quantifier lazy: first "{" to the
\* first "}" after it
JsonMatch_lazy(s) ==
  LET opens == Positions(s, "{")
      closes == Positions(s, "}")
  IN IF opens = {} \/ {j \in closes : j > First(opens)} = {} THEN NoMatch
     ELSE [found |-> TRUE,
           text |-> SubSeq(s, First(opens), First({j \in closes : j > First(opens)}))]

\* jsonText.match(/\{[\s\S]*\}/): first "{" through last "}"
JsonMatch(s) ==
  LET opens == Positions(s, "{")
      closes == Positions(s, "}")
  IN IF opens = {} \/ closes = {} \/ Last(closes) < First(opens) THEN NoMatch
     ELSE [found |-> TRUE, text |-> SubSeq(s, First(opens), Last(closes))]

ProductKeys ==
  {"asin", "type", "title", "price", "brand", "description", "size", "quantity",
   "dimensions", "rollLength", "rollWidth", "printNames", "rolls", "thumbnail",
   "images", "url"}

\* the object {}: every key reads undefined
EmptyProduct == [k \in ProductKeys |-> Undef]

RECURSIVE DropSpace(_)
DropSpace(s) ==
  IF Len(s) = 0 THEN s
  ELSE IF IsSpace(s[1]) THEN DropSpace(Tail(s))
  ELSE <<s[1]>> \o DropSpace(Tail(s))

\* JSON.parse(jsonText): the object, or the SyntaxError's message
JSONparse(jsonText, cmp) ==
  LET toks == DropSpace(jsonText)
  IN IF toks = <<"{", "members", "}">> THEN [ok |-> TRUE, value |-> cmp.members]
     ELSE IF toks \in {<<"{", "}">>, <<"{", "envelope", "}">>}
          THEN [ok |-> TRUE, value |-> EmptyProduct]
     ELSE [ok |-> FALSE, message |-> cmp.syntaxError]

\* line 231, JSON.stringify(response): the envelope spelled as one JSON
\* object, none of whose keys is a key of the product
JSONstringify(response) == Str(<<"{", "envelope", "}">>)

\* lines 219-232: the text of the response envelope
ExtractResponseText(response) ==
  IF IsString(response) THEN response
  ELSE IF Truthy(response.o.response) THEN response.o.response
  ELSE IF Truthy(response.o.text) THEN response.o.text
  ELSE IF Truthy(response.o.message) /\ Truthy(response.o.message.o.content)
       THEN response.o.message.o.content
  ELSE JSONstringify(response)

Envelope(r, tx, m) == Obj([response |-> r, text |-> tx, message |-> m])

(***************************************************************************)
(* parseAmazonProduct: back-fill, block check and normalization            *)
(***************************************************************************)
\* lines 268-271, with the test on productData.asin inverted
BackfillAsin_always(pd, pAsin) ==
  IF Truthy(pAsin) THEN pAsin ELSE pd.asin

\* lines 268-271: if (!productData.asin && productAsin) productData.asin = productAsin
BackfillAsin(pd, pAsin) ==
  IF ~Truthy(pd.asin) /\ Truthy(pAsin) THEN pAsin ELSE pd.asin

\* lines 273-278
BackfillUrl(pd, pAsin, pUrl) ==
  IF ~Truthy(pd.url) /\ Truthy(pUrl) THEN pUrl
  ELSE IF ~Truthy(pd.url) /\ Truthy(pAsin) THEN DpUrl(pAsin)
  ELSE pd.url

\* lines 268-283: productData after the in-place back-fill
Backfill(pd, pAsin, pUrl) ==
  [pd EXCEPT !.asin = BackfillAsin(pd, pAsin),
             !.url = BackfillUrl(pd, pAsin, pUrl),
             !.images = IF IsArray(pd.images) THEN pd.images ELSE Arr(<< >>)]

\* lines 286-290 with the warnings thrown instead of logged
ValidationThrows_strict(errors) == Len(errors) > 0

\* lines 286-290: the warnings are logged, nothing is thrown
ValidationThrows(errors) == FALSE

\* line 293: productData.title || productData.price !== null || productData.brand
hasProductData(pd) ==
  Truthy(pd.title) \/ pd.price.t # "null" \/ Truthy(pd.brand)

\* lines 295-302: the block check throws
Blocked(pd, html) == ~hasProductData(pd) /\ HasBlockPhrase(html.s)

\* roll.key: undefined on a value that is not an object; the access throws a
\* TypeError on null and undefined, see RollThrows
RollField(roll, key) == IF roll.t = "object" THEN roll.o[key] ELSE Undef

RollThrows(roll) == roll.t \in {"null", "undefined"}

\* lines 326-334 with line 333 pairing every roll with the next one
CleanRoll_pairing(roll, index) ==
  Obj([rollNumber |-> IF IsNumber(RollField(roll, "rollNumber"))
                      THEN RollField(roll, "rollNumber") ELSE Num(index + 1),
       onHand |-> IF IsNumber(RollField(roll, "onHand"))
                  THEN RollField(roll, "onHand") ELSE Num(0),
       maxArea |-> IF IsNumber(RollField(roll, "maxArea"))
                   THEN RollField(roll, "maxArea")
                   ELSE Or(RollField(roll, "onHand"), Num(0)),
       image |-> Or(RollField(roll, "image"), Null),
       printName |-> Or(RollField(roll, "printName"), Null),
       hasReverseSide |-> IF IsBoolean(RollField(roll, "hasReverseSide"))
                          THEN RollField(roll, "hasReverseSide") ELSE Bool(FALSE),
       pairedRollNumber |-> Num(index + 2)])

\* lines 326-334: the callback of cleanedData.rolls.map
CleanRoll(roll, index) ==
  Obj([rollNumber |-> IF IsNumber(RollField(roll, "rollNumber"))
                      THEN RollField(roll, "rollNumber") ELSE Num(index + 1),
       onHand |-> IF IsNumber(RollField(roll, "onHand"))
                  THEN RollField(roll, "onHand") ELSE Num(0),
       maxArea |-> IF IsNumber(RollField(roll, "maxArea"))
                   THEN RollField(roll, "maxArea")
                   ELSE Or(RollField(roll, "onHand"), Num(0)),
       image |-> Or(RollField(roll, "image"), Null),
       printName |-> Or(RollField(roll, "printName"), Null),
       hasReverseSide |-> IF IsBoolean(RollField(roll, "hasReverseSide"))
                          THEN RollField(roll, "hasReverseSide") ELSE Bool(FALSE),
       pairedRollNumber |-> IF IsNumber(RollField(roll, "pairedRollNumber"))
                            THEN RollField(roll, "pairedRollNumber") ELSE Null])

\* lines 317-318 without the test for null
ThreeWay_twoway(x) == IF IsArray(x) THEN x ELSE Arr(<< >>)

\* lines 317-318: Array.isArray(x) ? x : (x === null ? null : [])
ThreeWay(x) == IF IsArray(x) THEN x ELSE IF x.t = "null" THEN Null ELSE Arr(<< >>)

\* lines 315-316 with the two source fields exchanged
CleanDims_swapped(pd) ==
  [rollLength |-> DefinedOrNull(pd.rollWidth), rollWidth |-> DefinedOrNull(pd.rollLength)]

\* lines 315-316
CleanDims(pd) ==
  [rollLength |-> DefinedOrNull(pd.rollLength), rollWidth |-> DefinedOrNull(pd.rollWidth)]

\* lines 325-335: the rolls of cleanedData
CleanRolls(rolls) ==
  IF IsArray(rolls)
  THEN Arr([i \in 1..Len(rolls.a) |-> CleanRoll(rolls.a[i], i - 1)])
  ELSE rolls

\* lines 305-335: cleanedData
CleanData(pd, pAsin) ==
  [asin |-> Or(pd.asin, Null),
   type |-> Or(pd.type, Null),
   title |-> Or(pd.title, Null),
   price |-> DefinedOrNull(pd.price),
   brand |-> Or(pd.brand, Null),
   description |-> Or(pd.description, Null),
   size |-> Or(pd.size, Null),
   quantity |-> DefinedOrNull(pd.quantity),
   dimensions |-> Or(pd.dimensions, Null),
   rollLength |-> CleanDims(pd).rollLength,
   rollWidth |-> CleanDims(pd).rollWidth,
   printNames |-> ThreeWay(pd.printNames),
   rolls |-> CleanRolls(ThreeWay(pd.rolls)),
   thumbnail |-> Or(pd.thumbnail, Null),
   images |-> IF IsArray(pd.images) THEN pd.images ELSE Arr(<< >>),
   url |-> Or(pd.url, IF Truthy(pAsin) THEN DpUrl(pAsin) ELSE Null)]

\* the map callback reads a property of null or undefined
CleanThrows(pd) ==
  LET rolls == ThreeWay(pd.rolls)
  IN IsArray(rolls) /\ \E i \in 1..Len(rolls.a) : RollThrows(rolls.a[i])

RollTypeErrorMessage == <<"Cannot read properties of null (reading 'rollNumber')">>
TrimTypeErrorMessage == <<"responseText.trim is not a function">>

\* lines 338-354: what the catch block throws for a caught error
CatchHandler(error) ==
  IF \/ error.code = HeadersTimeoutCode
     \/ Includes(error.message, "Headers Timeout")
     \/ error.causeCode = HeadersTimeoutCode
  THEN Error(TimeoutPrefix \o error.message)
  ELSE IF \/ Includes(error.message, "Ollama")
          \/ Includes(error.message, "model")
          \/ Includes(error.message, "timeout")
  THEN Error(ApiPrefix \o error.message)
  ELSE error

(***************************************************************************)
(* Inputs                                                                  *)
(***************************************************************************)
\* longest rolls array of a completion
MaxRolls == 2
\* most tokens of prose or white space before the JSON text
MaxPad == 1

ProductHtml == <<"<span id=\"productTitle\">", "Gift Wrap", "</span>">>
BlockHtml == <<"<html>", "Continue Shopping", "</html>">>
ButtonHtml == <<"<p>", "click the button below", "</p>">>
CaptchaHtml == <<"<html>", "Captcha", "</html>">>
AsinHtml == <<"<a href=\"/", "dp/">> \o SampleAsin \o <<"\">">>

ArgUrls ==
  {Undef,
   Str(DpPrefix \o SampleAsin),
   Str(<<AmazonOrigin, "gift-wrap">>),
   Str(<<"amazon.com/", "dp/">> \o SampleAsin)}
ArgAsins == {Undef, Str(SampleAsin), Str(LowerAsin)}
ArgHtmls == {Undef, Str(ProductHtml), Str(BlockHtml)}
FetchedHtmls ==
  {Str(ProductHtml), Str(BlockHtml), Str(ButtonHtml), Str(CaptchaHtml),
   Str(AsinHtml), Str(<< >>)}

\* how axios.get fails: error.response, error.request or neither (lines 450-458)
FetchFailures ==
  {<<"Amazon returned status ", "503", ": ", "Service Unavailable">>,
   <<"Failed to connect to Amazon. The request timed out or Amazon blocked the connection.">>,
   <<"Error fetching Amazon page: ", "socket hang up">>}

\* how ollamaClient.generate rejects
GenerateFailures ==
  {[code |-> HeadersTimeoutCode, message |-> <<"Headers Timeout", " Error">>, causeCode |-> NoCode],
   [code |-> NoCode, message |-> <<"fetch failed">>, causeCode |-> HeadersTimeoutCode],
   [code |-> NoCode, message |-> <<"connect ECONNREFUSED 127.0.0.1:11434">>, causeCode |-> NoCode],
   [code |-> NoCode, message |-> <<"model", " 'llama3.2' not found">>, causeCode |-> NoCode],
   [code |-> NoCode, message |-> <<"socket ", "timeout">>, causeCode |-> NoCode]}

\* messages of the SyntaxError JSON.parse throws; V8 quotes the source text
SyntaxErrors ==
  {<<"Unexpected end of JSON input">>,
   <<"Unexpected token 'm', \"{", "model", ": ...\" is not valid JSON">>}

RECURSIVE SeqsUpTo(_, _)
SeqsUpTo(S, n) ==
  IF n = 0 THEN {<< >>}
  ELSE LET shorter == SeqsUpTo(S, n - 1)
       IN shorter \cup {<<x>> \o q : x \in S, q \in {r \in shorter : Len(r) = n - 1}}

\* what a completion puts before and after its JSON text
Preambles == SeqsUpTo({"\n", "Sure, here it is:"}, MaxPad)
Postscripts == {<< >>, <<" ">>, <<"Hope this helps.">>}

Cores ==
  {<<"{", "members", "}">>,
   <<"{", " ", "members", "\n", "}">>,
   <<"{", "}">>,
   << >>,
   <<"I could not find a product.">>,
   <<"{", "members">>,
   <<"}", "members", "{">>,
   <<"{", "members", "}", "\n", "{", "members", "}">>,
   <<"{", "title: Gift Wrap", "}">>}

Fenced(s) ==
  {s, <<"<fence>", "json", "\n">> \o s \o <<"\n", "<fence>">>, <<"<fence>", "\n">> \o s \o <<"<fence>">>}

Texts ==
  UNION {Fenced(pre \o core \o post) :
           pre \in Preambles, core \in Cores, post \in Postscripts}

PlainText == <<"{", "members", "}">>

Roll(n, onHand, maxArea, image, printName, rev, paired) ==
  Obj([rollNumber |-> n, onHand |-> onHand, maxArea |-> maxArea, image |-> image,
       printName |-> printName, hasReverseSide |-> rev, pairedRollNumber |-> paired])

\* rolls as the prompt's schema describes them, for position n
SchemaRolls(n) ==
  {Roll(Num(n), Num(h), Num(h), img, Str(<<"Stripes">>), Bool(TRUE), Null) :
     h \in {0, 22}, img \in {Null, Str(<< >>)}}
  \cup {Roll(Num(n), Num(22), Num(11), Str(<<"img">>), Str(<<"Dots">>), Bool(FALSE), Num(1))}

RECURSIVE SchemaRollArrays(_)
SchemaRollArrays(n) ==
  IF n = 0 THEN {<< >>}
  ELSE LET shorter == SchemaRollArrays(n - 1)
       IN shorter \cup {q \o <<r>> : q \in {x \in shorter : Len(x) = n - 1}, r \in SchemaRolls(n)}

\* rolls that are near the schema
AdjacentRolls ==
  {Roll(Undef, Str(<<"22">>), Undef, Undef, Undef, Str(<<"yes">>), Str(<<"2">>)),
   Roll(Num(7), Undef, Undef, Null, Str(<<"Dots">>), Undef, Num(1)),
   Roll(Str(<<"1">>), Num(22), Str(<<"22">>), Str(<<"img">>), Num(0), Bool(TRUE), Undef)}

\* elements of a rolls array that are not objects
MismatchedRolls == {Null, Num(3), Arr(<< >>)}

AdjacentRollArrays == SeqsUpTo(AdjacentRolls \cup MismatchedRolls, MaxRolls)

PrintNameArrays ==
  {Arr(<< >>), Arr(<<Str(<<"Stripes">>)>>), Arr(<<Str(<<"Stripes">>), Str(<<"Dots">>)>>)}

MAsins == {Undef, Null, Str(<< >>), Str(SampleAsin), Str(LowerAsin)}
MUrls == {Undef, Null, Str(<< >>), Str(<<"https://example.com/", "item">>)}
MTitles == {Undef, Null, Str(<< >>), Str(<<"Gift Wrap">>)}
MPrices == {Undef, Null, Num(0), Num(0 - 5), Num(50)}
MBrands == {Undef, Null, Str(<<"Acme">>)}

\* the objects a completion's member list spells
BackfillObjects ==
  {[NullProduct EXCEPT !.asin = a, !.url = u, !.title = ti, !.images = im] :
     a \in MAsins, u \in MUrls, ti \in {Null, Str(<<"Gift Wrap">>)},
     im \in {Undef, Arr(<<Str(<<"img">>)>>)}}
BlockObjects ==
  {[NullProduct EXCEPT !.title = ti, !.price = p, !.brand = b] :
     ti \in MTitles, p \in MPrices, b \in MBrands}
RangeObjects ==
  {[NullProduct EXCEPT !.title = Str(<<"Gift Wrap">>), !.type = ty, !.price = p,
                       !.quantity = q, !.rollWidth = w] :
     ty \in {Undef, Str(<<"ribbon">>), Str(<<"gift">>)},
     p \in MPrices, q \in {Undef, Null, Num(4)},
     w \in {Undef, Num(30), Num(MaxRollDim + 1)}}
RollObjects ==
  {[NullProduct EXCEPT !.title = Str(<<"Gift Wrap">>), !.type = Str(<<"wrapping_paper">>),
                       !.printNames = pn, !.rolls = r] :
     pn \in PrintNameArrays \cup {Null, Undef, Str(<<"Stripes">>)},
     r \in {Arr(q) : q \in AdjacentRollArrays} \cup {Null, Undef, Str(<<"none">>)}}
\* objects that match the schema of the prompt: every key present, each
\* value of its declared type or null
SchemaObjects ==
  {[NullProduct EXCEPT !.asin = a, !.title = ti, !.price = pl[1], !.printNames = pn,
                       !.rolls = r, !.rollLength = pl[2], !.rollWidth = w, !.url = u] :
     a \in {Null, Str(SampleAsin)}, ti \in {Null, Str(<< >>), Str(<<"Gift Wrap">>)},
     pl \in {<<Null, Num(8)>>, <<Num(50), Null>>},
     pn \in {Null, Arr(<<Str(<<"Stripes">>)>>)},
     r \in {Arr(q) : q \in SchemaRollArrays(MaxRolls)} \cup {Null},
     w \in {Num(30)},
     u \in {Null, Str(<<"https://example.com/", "item">>)}}

MemberObjects == BackfillObjects \cup BlockObjects \cup RangeObjects \cup RollObjects

\* objects paired with every text
FewObjects ==
  {NullProduct, [NullProduct EXCEPT !.title = Str(<<"Gift Wrap">>), !.price = Num(50)]}

MalformedText == <<"{", "title: Gift Wrap", "}">>

Completions ==
  {[response |-> Str(tx), members |-> m, syntaxError |-> <<"Unexpected end of JSON input">>] :
     tx \in Texts, m \in FewObjects}
  \cup
  {[response |-> Str(MalformedText), members |-> NullProduct, syntaxError |-> e] :
     e \in SyntaxErrors}
  \cup
  {[response |-> Str(PlainText), members |-> m, syntaxError |-> <<"Unexpected end of JSON input">>] :
     m \in MemberObjects}
  \cup
  {[response |-> r, members |-> m, syntaxError |-> <<"Unexpected end of JSON input">>] :
     r \in {Envelope(Str(PlainText), Undef, Undef),
            Envelope(Undef, Str(PlainText), Undef),
            Envelope(Undef, Undef, Obj([content |-> Str(PlainText)])),
            Envelope(Num(5), Undef, Undef),
            Envelope(Str(<< >>), Undef, Undef),
            Envelope(Str(<< >>), Str(PlainText), Undef),
            Envelope(Undef, Undef, Undef)},
     m \in FewObjects}

NoCompletion == [response |-> Undef, members |-> EmptyProduct, syntaxError |-> << >>]

\* POST /parse requests in flight at once
MaxRequests == 2
Requests == 1..MaxRequests

\* a collaborator that has not settled yet
Unsettled == [settled |-> FALSE]

\* a request that has not arrived
IdleRequest ==
  [pc |-> "idle",
   body |-> [url |-> Undef, asin |-> Undef, html |-> Undef],
   invocations |-> 0,
   productAsin |-> Undef, productUrl |-> Undef, productHtml |-> Undef,
   page |-> Unsettled, generated |-> Unsettled,
   outcome |-> Pending,
   responses |-> << >>]

SIdle == reqs = [r \in Requests |-> IdleRequest]

\* most rows of a product-details table
MaxRows == 2

\* html.match finds no table
NoTable == [found |-> FALSE]
\* extracted.productDetails was never assigned
NoDetails == [present |-> FALSE]

EIdle ==
  /\ ePhase = "idle"
  /\ eIn = [poExpander |-> NoTable, prodDetails |-> NoTable]
  /\ eOut = NoDetails

VIdle ==
  /\ vPhase = "idle" /\ vData = NullProduct /\ vErrors = << >>
  /\ rPhase = "idle"
  /\ rIn = [object |-> NullProduct, asin |-> Null, url |-> Null]
  /\ rOnce = NullProduct
  /\ rTwice = NullProduct

(***************************************************************************)
(* parseAmazonProduct as a state machine                                   *)
(***************************************************************************)
PIdle ==
  /\ pc = "idle"
  /\ productAsin = Undef
  /\ productUrl = Undef
  /\ productHtml = Undef
  /\ fetchCalls = 0
  /\ httpGets = 0
  /\ generateCalls = 0
  /\ completion = NoCompletion
  /\ responseText = Undef
  /\ productData = EmptyProduct
  /\ validationErrors = << >>
  /\ result = Pending
  /\ thrownAt = "none"

Init ==
  /\ pc = "start"
  /\ productAsin = Undef
  /\ productUrl = Undef
  /\ productHtml = Undef
  /\ fetchCalls = 0
  /\ httpGets = 0
  /\ generateCalls = 0
  /\ completion = NoCompletion
  /\ responseText = Undef
  /\ productData = EmptyProduct
  /\ validationErrors = << >>
  /\ result = Pending
  /\ thrownAt = "none"
  /\ VIdle
  /\ SIdle
  /\ EIdle

\* lines 104-111: productAsin after the extraction from the URL
InitialAsin(url, asin) ==
  IF ~Truthy(asin) /\ Truthy(url) THEN extractAsin(url) ELSE asin

\* lines 113-126: productUrl after the synthesis and the format check
InitialUrl(url, asin) ==
  LET pAsin == InitialAsin(url, asin)
      u == IF ~Truthy(url) /\ Truthy(pAsin) THEN DpUrl(pAsin) ELSE url
  IN IF Truthy(u) /\ IsString(u) /\ ~IsValidUrl(u.s) THEN Null ELSE u

\* lines 179-182: productAsin before the prompt is composed
FinalAsin(pAsin, pUrl, html) ==
  IF ~Truthy(pAsin) THEN Or(extractAsin(html), extractAsin(pUrl)) ELSE pAsin

\* fetchAmazonPage, lines 392-416: the error thrown before the request, if any
FetchPrecheck(url, asin) ==
  LET fetchUrl == IF Truthy(url) /\ IsString(url) /\ Len(Trim(url.s)) > 0 /\ IsValidUrl(url.s)
                  THEN Str(Trim(url.s))
                  ELSE IF Truthy(asin) THEN DpUrl(asin) ELSE Null
  IN IF ~Truthy(fetchUrl) THEN [ok |-> FALSE, message |-> UrlOrAsinRequiredMessage]
     ELSE IF Truthy(asin) /\ ~AsinRegexTest(asin)
          THEN [ok |-> FALSE, message |-> InvalidAsinMessage]
     ELSE [ok |-> TRUE, fetchUrl |-> fetchUrl]

\* a throw that the try block of lines 206-354 does not enclose
ThrowOutside(error, site) ==
  /\ result' = Threw(error)
  /\ thrownAt' = site
  /\ pc' = "done"

\* a throw inside the try block: the catch block rethrows
ThrowInside(error, site) ==
  /\ result' = Threw(CatchHandler(error))
  /\ thrownAt' = site
  /\ pc' = "done"

\* lines 175-217, HTML in hand: the check, the prompt, the generate call
ProceedWithHtml(pAsin, html) ==
  IF ~Truthy(html)
  THEN /\ ThrowOutside(Error(HtmlRequiredMessage), "html")
       /\ productAsin' = pAsin
       /\ UNCHANGED generateCalls
  ELSE /\ productAsin' = FinalAsin(pAsin, productUrl', html)
       /\ generateCalls' = generateCalls + 1
       /\ pc' = "generating"
       /\ UNCHANGED <<result, thrownAt>>

\* parseAmazonProduct(ollamaClient, model, url, asin, html) up to its first await
Start(url, asin, html) ==
  /\ pc = "start"
  /\ productUrl' = InitialUrl(url, asin)
  /\ productHtml' = html
  /\ LET pAsin == InitialAsin(url, asin)
         pUrl == InitialUrl(url, asin)
         urlToFetch == IF Truthy(pUrl) /\ IsString(pUrl) /\ Len(Trim(pUrl.s)) > 0
                       THEN pUrl ELSE Null
     IN IF ~Truthy(html) /\ (Truthy(pUrl) \/ Truthy(pAsin))
        THEN /\ fetchCalls' = fetchCalls + 1
             /\ productAsin' = pAsin
             /\ UNCHANGED generateCalls
             /\ IF FetchPrecheck(urlToFetch, pAsin).ok
                THEN /\ httpGets' = httpGets + 1
                     /\ pc' = "fetching"
                     /\ UNCHANGED <<result, thrownAt>>
                ELSE /\ ThrowOutside(Error(FetchFailedPrefix \o FetchPrecheck(urlToFetch, pAsin).message), "fetch")
                     /\ UNCHANGED httpGets
        ELSE /\ ProceedWithHtml(pAsin, html)
             /\ UNCHANGED <<fetchCalls, httpGets>>
  /\ UNCHANGED <<completion, responseText, productData, validationErrors, vvars, svars, evars>>

\* axios.get resolves with a page: lines 134-217
FetchResolve(html) ==
  /\ pc = "fetching"
  /\ productHtml' = html
  /\ UNCHANGED productUrl
  /\ ProceedWithHtml(productAsin, html)
  /\ UNCHANGED <<fetchCalls, httpGets, completion, responseText, productData,
                 validationErrors, vvars, svars, evars>>

\* axios.get rejects and the invocation goes on to the generate call
FetchReject_generates(message) ==
  /\ pc = "fetching"
  /\ generateCalls' = generateCalls + 1
  /\ pc' = "generating"
  /\ UNCHANGED <<result, thrownAt, productAsin, productUrl, productHtml, fetchCalls,
                 httpGets, completion, responseText, productData,
                 validationErrors, vvars, svars, evars>>

\* axios.get rejects: lines 450-458, then line 171
FetchReject(message) ==
  /\ pc = "fetching"
  /\ ThrowOutside(Error(FetchFailedPrefix \o message), "fetch")
  /\ UNCHANGED <<productAsin, productUrl, productHtml, fetchCalls, httpGets,
                 generateCalls, completion, responseText, productData,
                 validationErrors, vvars, svars, evars>>

\* ollamaClient.generate rejects and the call is issued again
GenerateReject_retry(error) ==
  /\ pc = "generating"
  /\ generateCalls < 3
  /\ generateCalls' = generateCalls + 1
  /\ UNCHANGED <<pc, result, thrownAt, productAsin, productUrl, productHtml, fetchCalls,
                 httpGets, completion, responseText, productData,
                 validationErrors, vvars, svars, evars>>

\* ollamaClient.generate rejects: the catch block, lines 338-354
GenerateReject(error) ==
  /\ pc = "generating"
  /\ ThrowInside(error, "generate")
  /\ UNCHANGED <<productAsin, productUrl, productHtml, fetchCalls, httpGets,
                 generateCalls, completion, responseText, productData,
                 validationErrors, vvars, svars, evars>>

\* what the catch block of lines 338-354 makes of an error thrown at site
Caught(error, site, text, pd, errors) ==
  [responseText |-> text, productData |-> pd, validationErrors |-> errors,
   result |-> Threw(CatchHandler(error)), thrownAt |-> site]

\* lines 292-337: the block check, cleanedData, the return
CleanAndReturn(text, pd, errors, pAsin, html) ==
  IF Blocked(pd, html)
  THEN Caught(Error(BlockedMessage), "blocked", text, pd, errors)
  ELSE IF CleanThrows(pd)
  THEN Caught(Error(RollTypeErrorMessage), "rolls", text, pd, errors)
  ELSE [responseText |-> text, productData |-> pd, validationErrors |-> errors,
        result |-> Returned(CleanData(pd, pAsin)), thrownAt |-> "none"]

\* lines 268-290: back-fill in place, then validateProductData
BackfillAndValidate(text, parsed, pAsin, pUrl, html) ==
  LET pd == Backfill(parsed, pAsin, pUrl)
      errors == validateProductData(pd)
  IN IF ValidationThrows(errors)
     THEN Caught(Error(<<errors[1]>>), "validate", text, pd, errors)
     ELSE CleanAndReturn(text, pd, errors, pAsin, html)

\* lines 219-337 and the catch block: the locals and the outcome of the
\* invocation once generate has resolved with cmp
HandleResponse(cmp, pAsin, pUrl, html) ==
  LET text == ExtractResponseText(cmp.response)
  IN IF ~IsString(text)
     THEN Caught(Error(TrimTypeErrorMessage), "text", text, EmptyProduct, << >>)
     ELSE LET jsonMatch == JsonMatch(StripFences(Trim(text.s)))
          IN IF ~jsonMatch.found
             THEN Caught(Error(NoJsonMessage), "nojson", text, EmptyProduct, << >>)
             ELSE LET parsed == JSONparse(jsonMatch.text, cmp)
                  IN IF ~parsed.ok
                     THEN Caught(Error(MalformedPrefix \o parsed.message), "malformed",
                                 text, EmptyProduct, << >>)
                     ELSE BackfillAndValidate(text, parsed.value, pAsin, pUrl, html)

\* ollamaClient.generate resolves: lines 219-337 run to the return or the throw
GenerateResolve(cmp) ==
  /\ pc = "generating"
  /\ completion' = cmp
  /\ \E out \in {HandleResponse(cmp, productAsin, productUrl, productHtml)} :
        /\ responseText' = out.responseText
        /\ productData' = out.productData
        /\ validationErrors' = out.validationErrors
        /\ result' = out.result
        /\ thrownAt' = out.thrownAt
  /\ pc' = "done"
  /\ UNCHANGED <<productAsin, productUrl, productHtml, fetchCalls, httpGets,
                 generateCalls, vvars, svars, evars>>

Next ==
  \/ \E url \in ArgUrls, asin \in ArgAsins, html \in ArgHtmls : Start(url, asin, html)
  \/ \E html \in FetchedHtmls : FetchResolve(html)
  \/ \E message \in FetchFailures : FetchReject(message)
  \/ \E error \in GenerateFailures : GenerateReject(error)
  \/ \E cmp \in Completions : GenerateResolve(cmp)

Spec == Init /\ [][Next]_vars

(***************************************************************************)
(* validateProductData applied to bounded inputs                           *)
(***************************************************************************)
VAsins ==
  {Undef, Null, Str(<< >>), Str(SampleAsin), Str(LowerAsin), Str(ShortAsin),
   Str(LongAsin), Str(DashAsin), Num(0), Num(1234567890), Bool(TRUE)}
VTypes ==
  {Undef, Null, Str(<< >>), Str(<<"Ribbon">>), Str(<<"gift">>), Num(1)}
    \cup {Str(ty) : ty \in ProductTypes}
VPrices ==
  {Undef, Null, Num(0 - 5), Num(0 - 1), Num(0), Num(MaxPrice), Num(MaxPrice + 1),
   Str(<<"5">>)}
VDims ==
  {Null, Num(0 - 1), Num(0), Num(MaxRollDim), Num(MaxRollDim + 1), Str(<<"3", "0">>)}
VQuantities == {Null, Num(0 - 1), Num(4), Num(MaxPrice + 1)}

VRecords ==
  {[NullProduct EXCEPT !.asin = a, !.type = ty, !.price = p, !.quantity = q,
                       !.rollWidth = w, !.rollLength = l] :
     a \in VAsins, ty \in VTypes, p \in VPrices, q \in VQuantities,
     w \in VDims, l \in {Null, Num(MaxRollDim + 1)}}
   \cup
  {[NullProduct EXCEPT !.rollLength = l, !.rollWidth = w, !.price = p] :
     l \in VDims, w \in VDims, p \in VPrices}

RIdle ==
  /\ rPhase = "idle"
  /\ rIn = [object |-> NullProduct, asin |-> Null, url |-> Null]
  /\ rOnce = NullProduct
  /\ rTwice = NullProduct

InitValidate ==
  /\ PIdle
  /\ SIdle
  /\ EIdle
  /\ RIdle
  /\ vPhase = "input"
  /\ vData \in VRecords
  /\ vErrors = << >>

Validate ==
  /\ vPhase = "input"
  /\ vErrors' = validateProductData(vData)
  /\ vPhase' = "validated"
  /\ UNCHANGED <<vData, rPhase, rIn, rOnce, rTwice, pvars, svars, evars>>

NextValidate == Validate

SpecValidate == InitValidate /\ [][NextValidate]_vars

(***************************************************************************)
(* Normalization (lines 268-283 and 305-335) applied twice                 *)
(***************************************************************************)
\* the record parseAmazonProduct returns for a parsed object that passes the
\* block check
Normalize(object, pAsin, pUrl) == CleanData(Backfill(object, pAsin, pUrl), pAsin)

InitResolve ==
  /\ PIdle
  /\ SIdle
  /\ EIdle
  /\ vPhase = "idle" /\ vData = NullProduct /\ vErrors = << >>
  /\ rPhase = "input"
  /\ rIn \in [object : SchemaObjects,
               asin : {Null, Str(SampleAsin)},
               url : {Null, Str(DpPrefix \o SampleAsin)}]
  /\ rOnce = NullProduct
  /\ rTwice = NullProduct

ResolveOnce ==
  /\ rPhase = "input"
  /\ rOnce' = Normalize(rIn.object, rIn.asin, rIn.url)
  /\ rPhase' = "once"
  /\ UNCHANGED <<rIn, rTwice, vPhase, vData, vErrors, pvars, svars, evars>>

ResolveAgain ==
  /\ rPhase = "once"
  /\ rTwice' = Normalize(rOnce, rIn.asin, rIn.url)
  /\ rPhase' = "twice"
  /\ UNCHANGED <<rIn, rOnce, vPhase, vData, vErrors, pvars, svars, evars>>

NextResolve == ResolveOnce \/ ResolveAgain

SpecResolve == InitResolve /\ [][NextResolve]_vars

(***************************************************************************)
(* server.js: POST /parse, several requests in flight                      *)
(***************************************************************************)
OtherAsin == <<"B", "0", "8", "X", "Y", "Z", "1", "2", "3", "5">>

BadRequestMessage == <<"At least one of url, asin, or html is required">>
DefaultErrorMessage == <<"Failed to parse Amazon product">>
SubstringTypeErrorMessage == <<"productData.title.substring is not a function">>

\* what req.body carries
ServerBodies ==
  {[url |-> Undef, asin |-> Undef, html |-> Undef],
   [url |-> Str(<< >>), asin |-> Null, html |-> Undef],
   [url |-> Undef, asin |-> Str(SampleAsin), html |-> Undef],
   [url |-> Str(DpPrefix \o OtherAsin), asin |-> Undef, html |-> Undef],
   [url |-> Undef, asin |-> Str(LowerAsin), html |-> Undef],
   [url |-> Undef, asin |-> Undef, html |-> Str(ProductHtml)],
   [url |-> Undef, asin |-> Str(OtherAsin), html |-> Str(BlockHtml)]}

ServerPages == {Str(ProductHtml), Str(<< >>)}
ServerPageFailures ==
  {<<"Amazon returned status ", "503", ": ", "Service Unavailable">>}

ServerCompletions ==
  {[response |-> Str(PlainText), members |-> m, syntaxError |-> <<"Unexpected end of JSON input">>] :
     m \in {NullProduct,
            [NullProduct EXCEPT !.title = Str(<<"Gift Wrap">>), !.price = Num(50)],
            [NullProduct EXCEPT !.title = Num(2024), !.price = Num(50)]}}
  \cup
  {[response |-> Str(<<"I could not find a product.">>), members |-> NullProduct,
    syntaxError |-> <<"Unexpected end of JSON input">>]}

ServerGenerateFailures ==
  {[code |-> NoCode, message |-> <<"connect ECONNREFUSED 127.0.0.1:11434">>, causeCode |-> NoCode],
   [code |-> NoCode, message |-> << >>, causeCode |-> NoCode]}

\* parseAmazonProduct, lines 175-217, for the locals of one invocation: the
\* invocation throws or awaits ollamaClient.generate
WithHtml(pAsin, pUrl, html) ==
  IF ~Truthy(html)
  THEN [pc |-> "done", productAsin |-> pAsin, productUrl |-> pUrl, productHtml |-> html,
        outcome |-> Threw(Error(HtmlRequiredMessage))]
  ELSE [pc |-> "generating", productAsin |-> FinalAsin(pAsin, pUrl, html),
        productUrl |-> pUrl, productHtml |-> html, outcome |-> Pending]

\* parseAmazonProduct, lines 103-133, up to the first await or throw
BeginRun(url, asin, html) ==
  LET pAsin == InitialAsin(url, asin)
      pUrl == InitialUrl(url, asin)
      urlToFetch == IF Truthy(pUrl) /\ IsString(pUrl) /\ Len(Trim(pUrl.s)) > 0
                    THEN pUrl ELSE Null
      precheck == FetchPrecheck(urlToFetch, pAsin)
  IN IF ~Truthy(html) /\ (Truthy(pUrl) \/ Truthy(pAsin))
     THEN IF precheck.ok
          THEN [pc |-> "fetching", productAsin |-> pAsin, productUrl |-> pUrl,
                productHtml |-> html, outcome |-> Pending]
          ELSE [pc |-> "done", productAsin |-> pAsin, productUrl |-> pUrl,
                productHtml |-> html,
                outcome |-> Threw(Error(FetchFailedPrefix \o precheck.message))]
     ELSE WithHtml(pAsin, pUrl, html)

\* server.js lines 71-78: none of url, asin, html is supplied
NoneSupplied(body) == ~Truthy(body.url) /\ ~Truthy(body.asin) /\ ~Truthy(body.html)

\* server.js lines 74-77
BadRequest ==
  [status |-> 400, success |-> FALSE, error |-> BadRequestMessage, data |-> Undef]

\* server.js lines 104-108
ServerError(message) ==
  [status |-> 500, success |-> FALSE,
   error |-> IF Len(message) > 0 THEN message ELSE DefaultErrorMessage,
   data |-> Undef]

\* server.js lines 92-110: the response of the handler once the invocation
\* has settled; line 95 calls productData.title.substring on a truthy title
Reply(outcome) ==
  IF outcome.status = "returned"
  THEN IF Truthy(outcome.data.title) /\ ~IsString(outcome.data.title)
       THEN ServerError(SubstringTypeErrorMessage)
       ELSE [status |-> 200, success |-> TRUE, error |-> << >>, data |-> outcome.data]
  ELSE ServerError(outcome.error.message)

\* the locals of a request's invocation after a step; the handler responds
\* when the invocation has settled
Advance(rq, run) ==
  [rq EXCEPT !.pc = run.pc,
             !.productAsin = run.productAsin,
             !.productUrl = run.productUrl,
             !.productHtml = run.productHtml,
             !.outcome = run.outcome,
             !.responses = IF run.pc = "done" THEN Append(@, Reply(run.outcome)) ELSE @]

\* a settled invocation that keeps its locals
Settled(rq, outcome) ==
  [pc |-> "done", productAsin |-> rq.productAsin, productUrl |-> rq.productUrl,
   productHtml |-> rq.productHtml, outcome |-> outcome]

\* productAsin as every invocation reads the variable of the first one
AsinSeenBy_shared(r) == reqs[1].productAsin

\* part_001 line 104, let productAsin: a local of the invocation
AsinSeenBy(r) == reqs[r].productAsin

\* server.js lines 69-90: the handler up to its await
Post(r, body) ==
  /\ reqs[r].pc = "idle"
  /\ reqs' = [reqs EXCEPT ![r] =
       IF NoneSupplied(body)
       THEN [@ EXCEPT !.pc = "done", !.body = body, !.responses = Append(@, BadRequest)]
       ELSE Advance([@ EXCEPT !.body = body, !.invocations = @ + 1],
                    BeginRun(body.url, body.asin, body.html))]
  /\ UNCHANGED <<pvars, vvars, evars>>

\* axios.get of request r resolves
PageResolve(r, html) ==
  /\ reqs[r].pc = "fetching"
  /\ reqs' = [reqs EXCEPT ![r] =
       Advance([@ EXCEPT !.page = [settled |-> TRUE, ok |-> TRUE, html |-> html]],
               WithHtml(AsinSeenBy(r), @.productUrl, html))]
  /\ UNCHANGED <<pvars, vvars, evars>>

\* axios.get of request r rejects
PageReject(r, message) ==
  /\ reqs[r].pc = "fetching"
  /\ reqs' = [reqs EXCEPT ![r] =
       Advance([@ EXCEPT !.page = [settled |-> TRUE, ok |-> FALSE, message |-> message]],
               Settled(@, Threw(Error(FetchFailedPrefix \o message))))]
  /\ UNCHANGED <<pvars, vvars, evars>>

\* ollamaClient.generate of request r resolves
CompletionResolve(r, cmp) ==
  /\ reqs[r].pc = "generating"
  /\ reqs' = [reqs EXCEPT ![r] =
       Advance([@ EXCEPT !.generated = [settled |-> TRUE, ok |-> TRUE, cmp |-> cmp]],
               Settled(@, HandleResponse(cmp, AsinSeenBy(r), @.productUrl,
                                         @.productHtml).result))]
  /\ UNCHANGED <<pvars, vvars, evars>>

\* ollamaClient.generate of request r rejects
CompletionReject(r, error) ==
  /\ reqs[r].pc = "generating"
  /\ reqs' = [reqs EXCEPT ![r] =
       Advance([@ EXCEPT !.generated = [settled |-> TRUE, ok |-> FALSE, error |-> error]],
               Settled(@, Threw(CatchHandler(error))))]
  /\ UNCHANGED <<pvars, vvars, evars>>

InitServer ==
  /\ PIdle
  /\ VIdle
  /\ SIdle
  /\ EIdle

NextServer ==
  \/ \E r \in Requests, body \in ServerBodies : Post(r, body)
  \/ \E r \in Requests, html \in ServerPages : PageResolve(r, html)
  \/ \E r \in Requests, message \in ServerPageFailures : PageReject(r, message)
  \/ \E r \in Requests, cmp \in ServerCompletions : CompletionResolve(r, cmp)
  \/ \E r \in Requests, error \in ServerGenerateFailures : CompletionReject(r, error)

SpecServer == InitServer /\ [][NextServer]_vars

\* parseAmazonProduct run on its own: the outcome for a request body and the
\* responses of the two collaborators
RunAlone(body, page, generated) ==
  LET begun == BeginRun(body.url, body.asin, body.html)
      fetched == IF begun.pc # "fetching" THEN begun
                 ELSE IF page.ok THEN WithHtml(begun.productAsin, begun.productUrl, page.html)
                 ELSE Settled(begun, Threw(Error(FetchFailedPrefix \o page.message)))
  IN IF fetched.pc = "done" THEN fetched.outcome
     ELSE IF generated.ok
          THEN HandleResponse(generated.cmp, fetched.productAsin, fetched.productUrl,
                              fetched.productHtml).result
          ELSE Threw(CatchHandler(generated.error))

(***************************************************************************)
(* extractProductText: the product details of the two tables               *)
(***************************************************************************)
\* the text of a cell is a sequence of tokens: words, white space and tags
Tags == {"<b>", "</b>", "<span>", "</span>", "<i>", "</i>"}

\* the rows of a table, each the inner HTML of its td cells in order
DetailRows ==
  {<<<<"Brand">>, <<"Hallmark">>>>,
   <<<<"Brand">>, <<"Acme">>>>,
   <<<<" ", "<b>", "Size", "</b>", " ">>, <<"88 sq. ft.">>>>,
   <<<<"Size">>, <<"<span>", " ", "</span>">>>>,
   <<<<"Color">>>>,
   <<<<"<i>", "</i>">>, <<"Acme">>, <<"Red">>>>}

\* what html.match finds for a table: nothing, or the rows of the table
DetailTables == {NoTable} \cup {[found |-> TRUE, rows |-> q] : q \in SeqsUpTo(DetailRows, MaxRows)}

\* lines 68-69 and 86-87: td.replace(/<[^>]+>/g, '').trim()
CleanCell(cell) == Trim(SelectSeq(cell, LAMBDA tok : tok \notin Tags))

\* the object {}
EmptyDetails == [heading \in {} |-> << >>]

\* lines 71 and 89: extracted.productDetails[heading] = value
Put(details, heading, value) ==
  [h \in DOMAIN details \cup {heading} |-> IF h = heading THEN value ELSE details[h]]

\* lines 65-74 and 83-92: the loop over the rows of one table
RECURSIVE InsertRows(_, _)
InsertRows(details, rows) ==
  IF Len(rows) = 0 THEN details
  ELSE LET tr == Head(rows)
           heading == CleanCell(tr[1])
           value == CleanCell(tr[2])
       IN IF Len(tr) >= 2 /\ Len(heading) > 0 /\ Len(value) > 0
          THEN InsertRows(Put(details, heading, value), Tail(rows))
          ELSE InsertRows(details, Tail(rows))

\* lines 56-95: extracted.productDetails for the poExpander table and the
\* prodDetails table of a page
extractProductText(poExpander, prodDetails) ==
  LET primary == IF poExpander.found
                 THEN [present |-> TRUE, map |-> InsertRows(EmptyDetails, poExpander.rows)]
                 ELSE NoDetails
  IN IF prodDetails.found
     THEN [present |-> TRUE,
           map |-> InsertRows(IF primary.present THEN primary.map ELSE EmptyDetails,
                              prodDetails.rows)]
     ELSE primary

InitExtract ==
  /\ PIdle
  /\ VIdle
  /\ SIdle
  /\ ePhase = "input"
  /\ eIn \in [poExpander : DetailTables, prodDetails : DetailTables]
  /\ eOut = NoDetails

Extract ==
  /\ ePhase = "input"
  /\ eOut' = extractProductText(eIn.poExpander, eIn.prodDetails)
  /\ ePhase' = "extracted"
  /\ UNCHANGED <<eIn, pvars, vvars, svars>>

NextExtract == Extract

SpecExtract == InitExtract /\ [][NextExtract]_vars

(***************************************************************************)
(* Properties                                                              *)
(***************************************************************************)
Done == pc = "done"
Returns == Done /\ result.status = "returned"
Throws == Done /\ result.status = "threw"

IsPrefix(p, s) == Len(p) <= Len(s) /\ SubSeq(s, 1, Len(p)) = p
IsSuffix(q, s) == Len(q) <= Len(s) /\ SubSeq(s, Len(s) - Len(q) + 1, Len(s)) = q

\* number of entries of an errors array equal to message m
Count(errs, m) == Cardinality({i \in 1..Len(errs) : errs[i] = m})

\* the text has a "{" with a "}" somewhere after it
HasBraceSpan(s) == \E i, j \in 1..Len(s) : i < j /\ s[i] = "{" /\ s[j] = "}"

\* from the first "{" of the text through its last "}"
BraceSpan(s) ==
  LET i == CHOOSE k \in 1..Len(s) : s[k] = "{" /\ \A m \in 1..(k - 1) : s[m] # "{"
      j == CHOOSE k \in 1..Len(s) : s[k] = "}" /\ \A m \in (k + 1)..Len(s) : s[m] # "}"
  IN SubSeq(s, i, j)

\* generate resolved with text whose brace span is a JSON object
ReachedResolver ==
  /\ Done
  /\ IsString(responseText)
  /\ HasBraceSpan(responseText.s)
  /\ JSONparse(BraceSpan(responseText.s), completion).ok

\* the object the completion text spelled, before any back-fill
ParsedObject == JSONparse(BraceSpan(responseText.s), completion).value

\* C1: in every run that returns a record, the violations computed for the
\* request are exactly those validateProductData reports for the returned
\* record: the validator ran on the normalized record and nothing changed
\* after it.
C1_ValidatesReturnedRecord ==
  Returns => validationErrors = validateProductData(result.data)

\* C2: in one run fetchAmazonPage, axios.get and ollamaClient.generate are
\* each called at most once; a step that settles the run with an error after
\* an await issues no call, and once the run has thrown nothing changes.
C2_NoRetry ==
  [][/\ fetchCalls' <= 1 /\ httpGets' <= 1 /\ generateCalls' <= 1
     /\ (pc \in {"fetching", "generating"} /\ result'.status = "threw")
          => (<<fetchCalls', httpGets', generateCalls'>>
                = <<fetchCalls, httpGets, generateCalls>>)
     /\ (result.status = "threw") => (pvars' = pvars)]_vars

C2_Witness ==
  /\ Throws /\ thrownAt = "generate"
  /\ fetchCalls = 1 /\ httpGets = 1 /\ generateCalls = 1

\* C3: completion text with no "{" ... "}" span ends the run with the
\* no-JSON message and no record; text whose first-"{"-to-last-"}" span is
\* not valid JSON ends it with the malformed-JSON message followed by the
\* parser's message and no record; generate was called once, not again.
C3_ParseFailureClassified ==
  (Done /\ IsString(responseText)) =>
    /\ generateCalls = 1
    /\ ~HasBraceSpan(responseText.s) =>
         /\ result.status = "threw"
         /\ IsSuffix(NoJsonMessage, result.error.message)
    /\ (HasBraceSpan(responseText.s)
          /\ ~JSONparse(BraceSpan(responseText.s), completion).ok) =>
         /\ result.status = "threw"
         /\ IsSuffix(MalformedPrefix \o completion.syntaxError, result.error.message)
         /\ ~IsSuffix(NoJsonMessage, result.error.message)

C3_Witness ==
  /\ Throws /\ IsString(responseText)
  /\ Cardinality(Positions(responseText.s, "{")) = 2
  /\ Cardinality(Positions(responseText.s, "}")) = 2
  /\ thrownAt = "malformed"

\* C4: a header timeout of the generate call is surfaced with the timeout
\* message, and a failure of the no-JSON check, of JSON.parse or of the block
\* check is never surfaced with the timeout label or with the generic
\* "Ollama API error" label.
C4_FailureLabelsIsolated ==
  Throws =>
    /\ (thrownAt = "generate" /\ IsSuffix(<<"Headers Timeout", " Error">>, result.error.message))
         => IsPrefix(TimeoutPrefix, result.error.message)
    /\ thrownAt \in {"nojson", "malformed", "blocked"} =>
         /\ ~IsPrefix(TimeoutPrefix, result.error.message)
         /\ ~IsPrefix(ApiPrefix, result.error.message)

AllNull(o) == o.title = Null /\ o.price = Null /\ o.brand = Null

\* the HTML contains, in any letter case, one of the two phrases of the
\* block check
MentionsBlockPhrase(html) ==
  \E i \in 1..Len(html) :
    html[i] \in {"continue shopping", "Continue Shopping",
                 "click the button below", "CLICK THE BUTTON BELOW"}

\* C5: when the parsed object has title, price and brand all explicit null,
\* the run throws the blocked error if the raw HTML contains a block phrase
\* in any letter case, and otherwise returns a record whose title, price and
\* brand are null.
C5_BlockedOnlyWithEvidence ==
  (ReachedResolver /\ AllNull(ParsedObject)) =>
    IF MentionsBlockPhrase(productHtml.s)
    THEN result = Threw(Error(BlockedMessage))
    ELSE result.status = "returned" /\ AllNull(result.data)

C5_Witness ==
  /\ ReachedResolver /\ AllNull(ParsedObject)
  /\ Includes(productHtml.s, "Continue Shopping")
  /\ result.status = "threw"

Absent(v) == v.t \in {"undefined", "null"}

\* what the claim says of a parsed object that has no asin or no url
BackfillsAbsent(o, d) ==
  /\ (Absent(o.asin) /\ Truthy(productAsin)) => d.asin = productAsin
  /\ (Absent(o.url) /\ Truthy(productUrl)) => d.url = productUrl
  /\ (Absent(o.url) /\ ~Truthy(productUrl) /\ Truthy(productAsin))
       => d.url = Str(<<"https://www.amazon.com/", "dp/">> \o productAsin.s)

\* the returned field is the parsed value, or null where the parsed value
\* is one the normalization defaults to null
Kept(parsed, returned) ==
  returned = parsed \/ (~Truthy(parsed) /\ returned = Null)

\* C6 as stated: an absent asin is back-filled from the fallback ASIN, an
\* absent url from the fallback URL or else synthesized from the ASIN, and
\* an asin or url that is present in the parsed object is never replaced by
\* a fallback.
C6_PresentNeverReplaced ==
  (ReachedResolver /\ result.status = "returned") =>
    /\ BackfillsAbsent(ParsedObject, result.data)
    /\ ~Absent(ParsedObject.asin) => Kept(ParsedObject.asin, result.data.asin)
    /\ ~Absent(ParsedObject.url) => Kept(ParsedObject.url, result.data.url)

\* C6 amended: an absent asin is back-filled from the fallback ASIN, an
\* absent url from the fallback URL or else synthesized from the ASIN, and
\* an asin or url that is present and truthy (not the empty string, 0 or
\* false) in the parsed object is never replaced.
C6_TruthyNeverReplaced ==
  (ReachedResolver /\ result.status = "returned") =>
    /\ BackfillsAbsent(ParsedObject, result.data)
    /\ Truthy(ParsedObject.asin) => result.data.asin = ParsedObject.asin
    /\ Truthy(ParsedObject.url) => result.data.url = ParsedObject.url

C6_Witness ==
  /\ ReachedResolver /\ result.status = "returned"
  /\ Absent(ParsedObject.asin) /\ Absent(ParsedObject.url)
  /\ ~Truthy(productUrl)
  /\ result.data.asin = Str(SampleAsin)
  /\ result.data.url = Str(DpPrefix \o SampleAsin)

\* C7: for a parsed object that matches the schema, normalizing the
\* normalized record again with the same fallback ASIN and URL yields the
\* same record, field by field, rolls included.
C7_ResolveIdempotent == rPhase = "twice" => rTwice = rOnce

C7_Witness ==
  /\ rPhase = "twice"
  /\ rIn.object.asin = Null /\ rOnce.asin = Str(SampleAsin)
  /\ IsArray(rOnce.rolls) /\ Len(rOnce.rolls.a) = MaxRolls
  /\ rOnce.rolls.a[1].o.image = Null

\* 1 when the value is non-null and not a number in [0, max], else 0
Offends(v, max) ==
  IF v.t # "null" /\ ~(v.t = "number" /\ v.n >= 0 /\ v.n <= max) THEN 1 ELSE 0

OtherwiseValid(data) ==
  /\ data.asin \in {Null, Str(SampleAsin)}
  /\ data.type \in {Null} \cup {Str(ty) : ty \in ProductTypes}
  /\ Offends(data.quantity, 100000) = 0
  /\ Offends(data.rollWidth, 100) = 0
  /\ Offends(data.rollLength, 100) = 0

\* C8: validateProductData reports one violation for each of price and
\* quantity that is non-null and not a number in [0, 100000], one for each of
\* rollWidth and rollLength that is non-null and not a number in [0, 100],
\* and besides possibly the ASIN and type violations nothing else; an
\* otherwise valid record yields one violation with price -5 and none with
\* price null.
C8_NumericViolations ==
  vPhase = "validated" =>
    /\ Count(vErrors, PriceError) = Offends(vData.price, 100000)
    /\ Count(vErrors, QuantityError) = Offends(vData.quantity, 100000)
    /\ Count(vErrors, RollWidthError) = Offends(vData.rollWidth, 100)
    /\ Count(vErrors, RollLengthError) = Offends(vData.rollLength, 100)
    /\ Len(vErrors) = Count(vErrors, AsinError) + Count(vErrors, TypeError)
                      + Offends(vData.price, 100000) + Offends(vData.quantity, 100000)
                      + Offends(vData.rollWidth, 100) + Offends(vData.rollLength, 100)
    /\ (OtherwiseValid(vData) /\ vData.price = Num(0 - 5)) => vErrors = <<PriceError>>
    /\ (OtherwiseValid(vData) /\ vData.price = Null) => vErrors = << >>

C8_Witness ==
  /\ vPhase = "validated"
  /\ OtherwiseValid(vData) /\ vData.price = Num(0 - 5)
  /\ vErrors = <<PriceError>>

\* letters and digits of either case
Alphanumeric == UpperAlnum \cup {"a", "b", "x", "y", "z"}

\* C9: validateProductData reports the ASIN violation exactly when asin is
\* non-null and is not a string of exactly 10 alphanumeric characters (the
\* empty string included), and the type violation exactly when type is
\* non-null and not one of the five types.
C9_AsinAndTypeViolations ==
  (vPhase = "validated" /\ vData.asin.t \in {"null", "string"}
                        /\ vData.type.t \in {"null", "string"}) =>
    /\ Count(vErrors, AsinError) = 1 <=>
         /\ vData.asin.t = "string"
         /\ ~(/\ Len(vData.asin.s) = 10
              /\ \A i \in 1..Len(vData.asin.s) : vData.asin.s[i] \in Alphanumeric)
    /\ Count(vErrors, TypeError) = 1 <=>
         /\ vData.type.t = "string"
         /\ vData.type.s \notin ProductTypes

\* C10: whatever validateProductData reports, the run settles as the block
\* check and the normalization alone decide: no violation makes the run
\* throw, and the returned record is the normalization of the parsed object.
C10_ValidationWarnOnly ==
  ReachedResolver =>
    /\ thrownAt # "validate"
    /\ result = CleanAndReturn(responseText, productData, validationErrors,
                               productAsin, productHtml).result
    /\ productData = Backfill(ParsedObject, productAsin, productUrl)

C10_Witness ==
  /\ Returns
  /\ Len(validationErrors) >= 2


\* the payload of an envelope by its shape: the string itself, else the
\* response field when the envelope carries one, else text, else
\* message.content, else the serialized envelope
EnvelopePayload(response) ==
  IF IsString(response) THEN response
  ELSE IF response.o.response # Undef THEN response.o.response
  ELSE IF response.o.text # Undef THEN response.o.text
  ELSE IF response.o.message # Undef /\ response.o.message.o.content # Undef
       THEN response.o.message.o.content
  ELSE JSONstringify(response)

\* C11: the completion text handed to the resolver is the payload of the
\* envelope by its shape: the value itself for a plain string, else the
\* response field when the envelope carries one (the empty string included),
\* else text, else message.content, else the serialized envelope.
C11_EnvelopePayload ==
  (Done /\ completion # NoCompletion) =>
    responseText = EnvelopePayload(completion.response)

\* C12: every POST /parse request gets exactly one response: 400 with
\* success false when none of url, asin, html is supplied, the pipeline
\* never invoked; success true with the returned record as data when the
\* pipeline returns; 500 with success false and the message of the error
\* when the pipeline throws.
C12_OneResponsePerRequest ==
  \A r \in Requests :
    /\ Len(reqs[r].responses) <= 1
    /\ reqs[r].pc = "done" =>
         /\ Len(reqs[r].responses) = 1
         /\ NoneSupplied(reqs[r].body) =>
              /\ reqs[r].responses[1].status = 400
              /\ ~reqs[r].responses[1].success
              /\ reqs[r].invocations = 0
         /\ reqs[r].outcome.status = "returned" =>
              /\ reqs[r].responses[1].success
              /\ reqs[r].responses[1].data = reqs[r].outcome.data
         /\ reqs[r].outcome.status = "threw" =>
              /\ reqs[r].responses[1].status = 500
              /\ ~reqs[r].responses[1].success
              /\ reqs[r].responses[1].error = reqs[r].outcome.error.message

\* C13: whatever the interleaving of the collaborators' responses to the
\* requests in flight, the outcome and the response of each request are
\* those of its invocation run alone with the same body, page and completion.
C13_RequestsIndependent ==
  \A r \in Requests :
    (reqs[r].pc = "done" /\ reqs[r].invocations = 1) =>
      /\ reqs[r].outcome = RunAlone(reqs[r].body, reqs[r].page, reqs[r].generated)
      /\ reqs[r].responses =
           <<Reply(RunAlone(reqs[r].body, reqs[r].page, reqs[r].generated))>>

\* two requests in flight together have both returned records, each with the
\* ASIN of its own request
C13_Witness ==
  /\ reqs[1].pc = "done" /\ reqs[2].pc = "done"
  /\ reqs[1].page.settled /\ reqs[2].page.settled
  /\ reqs[1].outcome.status = "returned" /\ reqs[2].outcome.status = "returned"
  /\ reqs[1].outcome.data.asin = Str(SampleAsin)
  /\ reqs[2].outcome.data.asin = Str(OtherAsin)

\* C14: the block check treats a missing key like an explicit null: when the
\* normalized record has title, price and brand all null, whether the parsed
\* object carried them as null or omitted them, and the raw HTML contains a
\* block phrase, the run throws the blocked error instead of returning.
C14_MissingKeyBlocks ==
  (/\ ReachedResolver
   /\ AllNull(CleanData(productData, productAsin))
   /\ MentionsBlockPhrase(productHtml.s)) =>
    result = Threw(Error(BlockedMessage))

\* the value of key in the roll the completion gave, or the default when it
\* is not of the wanted type
GivenOr(given, key, type, default) ==
  IF RollField(given, key).t = type THEN RollField(given, key) ELSE default

\* C15: every element of a returned rolls sequence is fully coerced:
\* rollNumber is the given number or else index+1, onHand the given number or
\* else 0, maxArea the given number or else the coerced onHand,
\* hasReverseSide the given boolean or else false, pairedRollNumber the given
\* number or else null; rollNumber, onHand and maxArea are numbers.
C15_RollsFullyCoerced ==
  (ReachedResolver /\ Returns /\ IsArray(ParsedObject.rolls)) =>
    /\ IsArray(result.data.rolls)
    /\ Len(result.data.rolls.a) = Len(ParsedObject.rolls.a)
    /\ \A i \in 1..Len(ParsedObject.rolls.a) :
         LET given == ParsedObject.rolls.a[i]
             roll == result.data.rolls.a[i].o
         IN /\ roll.rollNumber = GivenOr(given, "rollNumber", "number", Num(i))
            /\ roll.onHand = GivenOr(given, "onHand", "number", Num(0))
            /\ roll.maxArea = GivenOr(given, "maxArea", "number", roll.onHand)
            /\ roll.hasReverseSide = GivenOr(given, "hasReverseSide", "boolean", Bool(FALSE))
            /\ roll.pairedRollNumber = GivenOr(given, "pairedRollNumber", "number", Null)
            /\ IsNumber(roll.rollNumber) /\ IsNumber(roll.onHand) /\ IsNumber(roll.maxArea)

\* C16: once the completion text has parsed as a JSON object, normalization
\* never raises on a shape mismatch: whatever the types of the fields and of
\* the elements of rolls, the run returns a record or throws the blocked
\* error, never another error.
C16_NormalizationNeverRaises ==
  ReachedResolver =>
    (result.status = "returned" \/ result = Threw(Error(BlockedMessage)))

\* C17: in the returned record printNames and rolls follow the three-way
\* rule: a parsed array is kept (rolls coerced element by element), an
\* explicit null stays null, anything else becomes the empty sequence; images
\* is the parsed array, or the empty sequence when the parsed value is not an
\* array.
C17_ThreeWayRule ==
  (ReachedResolver /\ Returns) =>
    /\ result.data.printNames =
         (IF IsArray(ParsedObject.printNames) THEN ParsedObject.printNames
          ELSE IF ParsedObject.printNames = Null THEN Null ELSE Arr(<< >>))
    /\ IF IsArray(ParsedObject.rolls)
       THEN /\ IsArray(result.data.rolls)
            /\ Len(result.data.rolls.a) = Len(ParsedObject.rolls.a)
            /\ \A i \in 1..Len(ParsedObject.rolls.a) :
                 result.data.rolls.a[i] = CleanRoll(ParsedObject.rolls.a[i], i - 1)
       ELSE result.data.rolls = (IF ParsedObject.rolls = Null THEN Null ELSE Arr(<< >>))
    /\ result.data.images =
         (IF IsArray(ParsedObject.images) THEN ParsedObject.images ELSE Arr(<< >>))

\* a record is returned for a completion whose printNames is null and whose
\* rolls is a string
C17_Witness ==
  /\ ReachedResolver /\ Returns
  /\ ParsedObject.printNames = Null
  /\ ParsedObject.rolls = Str(<<"none">>)
  /\ result.data.printNames = Null
  /\ result.data.rolls = Arr(<< >>)

ScalarKeys ==
  {"asin", "type", "title", "price", "brand", "description", "size", "quantity",
   "dimensions", "rollLength", "rollWidth", "thumbnail"}

\* C18: every scalar field present in the parsed object with a value other
\* than undefined is carried unchanged into the returned record, and a field
\* of the record is null only when the parsed value was null or the key
\* absent; asin is excepted when the back-fill replaced it.
C18_ScalarPassThrough ==
  (ReachedResolver /\ Returns) =>
    \A k \in ScalarKeys :
      (k = "asin" /\ productData.asin # ParsedObject.asin)
      \/ /\ ParsedObject[k] # Undef => result.data[k] = ParsedObject[k]
         /\ result.data[k] = Null => ParsedObject[k] \in {Null, Undef}

\* C19 as stated: in every returned record every roll's pairedRollNumber is
\* null.
C19_PairedAlwaysNull ==
  (Returns /\ IsArray(result.data.rolls)) =>
    \A i \in 1..Len(result.data.rolls.a) :
      result.data.rolls.a[i].o.pairedRollNumber = Null

\* C19: the pipeline never computes a pairing: in every returned record a
\* roll's pairedRollNumber is the number the completion gave for that roll,
\* and null when the completion gave none.
C19_PairedNeverComputed ==
  (ReachedResolver /\ Returns /\ IsArray(result.data.rolls)) =>
    \/ result.data.rolls = Arr(<< >>)
    \/ /\ IsArray(ParsedObject.rolls)
       /\ Len(ParsedObject.rolls.a) = Len(result.data.rolls.a)
       /\ \A i \in 1..Len(result.data.rolls.a) :
            LET given == RollField(ParsedObject.rolls.a[i], "pairedRollNumber")
            IN result.data.rolls.a[i].o.pairedRollNumber =
                 (IF IsNumber(given) THEN given ELSE Null)

\* a returned record has a roll with the pairing the completion gave and a
\* roll with none
C19_Witness ==
  /\ ReachedResolver /\ Returns /\ IsArray(result.data.rolls)
  /\ Len(result.data.rolls.a) = 2
  /\ result.data.rolls.a[1].o.pairedRollNumber = Num(1)
  /\ RollField(ParsedObject.rolls.a[1], "pairedRollNumber") = Num(1)
  /\ result.data.rolls.a[2].o.pairedRollNumber = Null

\* C20: in every returned record with a rolls sequence the print names are
\* assigned cyclically by position: the roll at index i (from 0) has
\* printName = printNames[i mod len(printNames)] when printNames is a
\* non-empty sequence, and printName = null otherwise.
C20_PrintNamesCyclic ==
  (Returns /\ IsArray(result.data.rolls)) =>
    \A i \in 1..Len(result.data.rolls.a) :
      result.data.rolls.a[i].o.printName =
        (IF IsArray(result.data.printNames) /\ Len(result.data.printNames.a) > 0
         THEN result.data.printNames.a[((i - 1) % Len(result.data.printNames.a)) + 1]
         ELSE Null)

\* the heading and value pairs a table offers: rows of two cells or more
\* whose cleaned heading and value are both non-empty
Offers(table) ==
  IF ~table.found THEN {}
  ELSE {<<CleanCell(table.rows[i][1]), CleanCell(table.rows[i][2])>> :
          i \in {j \in 1..Len(table.rows) :
                   /\ Len(table.rows[j]) >= 2
                   /\ Len(CleanCell(table.rows[j][1])) > 0
                   /\ Len(CleanCell(table.rows[j][2])) > 0}}

Headings(offers) == {o[1] : o \in offers}

\* C21: product-detail merging is first-source-wins: a heading of the primary
\* (poExpander) table keeps a value of the primary table, a row of the
\* fallback (prodDetails) table only adds a heading not present yet, and a
\* row is inserted only when its heading and value are both non-empty.
C21_FirstSourceWins ==
  (ePhase = "extracted" /\ eOut.present) =>
    LET primary == Offers(eIn.poExpander)
        fallback == Offers(eIn.prodDetails)
    IN /\ DOMAIN eOut.map = Headings(primary) \cup Headings(fallback)
       /\ \A h \in DOMAIN eOut.map :
            IF h \in Headings(primary)
            THEN <<h, eOut.map[h]>> \in primary
            ELSE <<h, eOut.map[h]>> \in fallback

\* C22: ollamaClient.generate is called only once HTML is in hand: a request
\* that supplies html issues no page fetch; a request with only url or asin
\* issues its single fetch first and calls generate in the step in which the
\* fetch resolves; when the fetch fails or there is no HTML the run ends
\* with an error and generate is never called.
C22_GenerateOnlyWithHtml ==
  [][/\ (pc = "start" /\ Truthy(productHtml')) => (fetchCalls' = 0 /\ httpGets' = 0)
     /\ (fetchCalls' > fetchCalls) =>
          (pc = "start" /\ ~Truthy(productHtml') /\ generateCalls' = 0)
     /\ (generateCalls' > generateCalls) =>
          /\ Truthy(productHtml')
          /\ pc' = "generating"
          /\ (fetchCalls' > 0) => (pc = "fetching" /\ fetchCalls' = 1 /\ httpGets' = 1)
     /\ (pc \in {"start", "fetching"} /\ pc' # "fetching" /\ ~Truthy(productHtml')) =>
          (pc' = "done" /\ result'.status = "threw" /\ generateCalls' = 0)
     /\ (pc' = "done" /\ thrownAt' \in {"fetch", "html"}) =>
          (result'.status = "threw" /\ generateCalls' = 0)]_vars

\* a run that fetched the page, then called generate and returned a record
C22_Witness ==
  /\ Returns
  /\ fetchCalls = 1 /\ httpGets = 1 /\ generateCalls = 1
  /\ Truthy(productHtml)

============================================================================
